---- MODULE Spec2Model ----
(***************************************************************************)
(* Model of scripts/bitboard_constants.py: the generator of the chess      *)
(* bitboard tables RANKS, FILES, ROOK_RAYS, BISHOP_RAYS and KNIGHT_MASKS.  *)
(*                                                                         *)
(* Representation of integers.  The masks are Python ints, which are       *)
(* unbounded; the only operations the script applies to them are the       *)
(* literal 0, `1 << n` and `|`.  A mask is therefore modelled by the set   *)
(* of the positions of its 1 bits: 0 is {}, 1 << n is {n}, a | b is        *)
(* a \cup b.  The value is < 2^64 iff every position is < 64, and it is    *)
(* > 2^63 - 1 iff some position is >= 63.  `1 << n` raises ValueError for  *)
(* n < 0, which is modelled by the exc field of a call's outcome.          *)
(***************************************************************************)
EXTENDS Integers, Sequences, FiniteSets

VARIABLES
  call,    \* main: number of the statement of main being executed (1..5), 6 after the last
  at,      \* position inside the running function: "entry", "outer", "inner", "raised"
  index,   \* next element of the outer for loop (file / rank / index in the source)
  slide,   \* next element of the inner for loop (rank / file / slide in the source)
  val,     \* the accumulator of the running function (val / ray / mask in the source)
  table,   \* the list being built (files / ranks / rook_rays / bishop_rays / knight_masks)
  stdout,  \* the lines printed so far
  args,    \* SpecFn: the (rank, file) pair bitboard_of is applied to
  ret,     \* SpecFn: the outcome of that application
  called   \* SpecFn: whether bitboard_of has been applied

progvars == <<call, at, index, slide, val, table, stdout>>
fnvars == <<args, ret, called>>
vars == <<call, at, index, slide, val, table, stdout, args, ret, called>>

\* Largest coordinate handed to bitboard_of in SpecFn; the smallest is 8 - CoordSpan.
CoordSpan == 16
Coords == (8 - CoordSpan)..CoordSpan

----------------------------------------------------------------------------
(* Python primitives *)

\* range(a, b)
range(a, b) == a..(b - 1)

\* 1 << n : ValueError (negative shift count) when n < 0
shl_one(n) == IF n < 0 THEN [exc |-> TRUE, val |-> {}]
                       ELSE [exc |-> FALSE, val |-> {n}]

returns(v) == [exc |-> FALSE, val |-> v]

----------------------------------------------------------------------------
(* bitboard_of, lines 2-9 *)

bitboard_of_swapped(rank, file) ==
  IF rank < 1 \/ rank > 8 THEN returns({})
  ELSE IF file < 1 \/ file > 8 THEN returns({})
  ELSE LET y == file - 1
           x == 8 - rank
       IN shl_one(y * 8 + x)

bitboard_of_no_file_lower(rank, file) ==
  IF rank < 1 \/ rank > 8 THEN returns({})
  ELSE IF file > 8 THEN returns({})
  ELSE LET y == 8 - rank
           x == file - 1
       IN shl_one(y * 8 + x)

bitboard_of_no_file_upper(rank, file) ==
  IF rank < 1 \/ rank > 8 THEN returns({})
  ELSE IF file < 1 THEN returns({})
  ELSE LET y == 8 - rank
           x == file - 1
       IN shl_one(y * 8 + x)

bitboard_of_rank_ge(rank, file) ==
  IF rank < 1 \/ rank >= 8 THEN returns({})
  ELSE IF file < 1 \/ file > 8 THEN returns({})
  ELSE LET y == 8 - rank
           x == file - 1
       IN shl_one(y * 8 + x)

bitboard_of(rank, file) ==
  IF rank < 1 \/ rank > 8 THEN returns({})
  ELSE IF file < 1 \/ file > 8 THEN returns({})
  ELSE LET y == 8 - rank
           x == file - 1
       IN shl_one(y * 8 + x)

\* acc |= bitboard_of(c[1], c[2]) for each c of calls, in order; an exception
\* raised by a call stops the sequence.
RECURSIVE ior(_, _)
ior(acc, calls) ==
  IF calls = <<>> THEN returns(acc)
  ELSE LET r == bitboard_of(Head(calls)[1], Head(calls)[2])
       IN IF r.exc THEN [exc |-> TRUE, val |-> acc]
                   ELSE ior(acc \cup r.val, Tail(calls))

----------------------------------------------------------------------------
(* main, lines 79-84 *)

main_files_first ==
  <<"print_files", "print_ranks", "print_rook_rays", "print_bishop_rays",
    "print_knight_masks">>

main_calls ==
  <<"print_ranks", "print_files", "print_rook_rays", "print_bishop_rays",
    "print_knight_masks">>

pc == IF call <= Len(main_calls) THEN main_calls[call] ELSE "done"

\* print(f"const NAME: [u64; n] = {lst};") and the return to main.  The line
\* keeps the fields of the f-string; values is the list that is formatted.
print(name, n, lst) ==
  /\ stdout' = Append(stdout,
       [qualifier |-> "const", name |-> name, type |-> "u64", len |-> n, values |-> lst])
  /\ call' = call + 1
  /\ at' = "entry"

\* An uncaught exception ends the program where it stands.
raise == at' = "raised" /\ UNCHANGED <<call, index, slide, val, table, stdout>>

----------------------------------------------------------------------------
(* print_ranks, lines 20-27.  index is `rank`, slide is `file`. *)

\* ranks = [] and the creation of the outer loop's iterator
print_ranks_begin ==
  /\ pc = "print_ranks" /\ at = "entry"
  /\ table' = <<>> /\ index' = 1 /\ at' = "outer"
  /\ UNCHANGED <<call, slide, val, stdout>> /\ UNCHANGED fnvars

\* for rank in range(1, 9): val = 0
print_ranks_outer ==
  /\ pc = "print_ranks" /\ at = "outer" /\ index \in range(1, 9)
  /\ val' = {} /\ slide' = 1 /\ at' = "inner"
  /\ UNCHANGED <<call, index, table, stdout>> /\ UNCHANGED fnvars

\* for file in range(1, 9): val |= bitboard_of(rank, file)
print_ranks_inner ==
  /\ pc = "print_ranks" /\ at = "inner" /\ slide \in range(1, 9)
  /\ LET r == ior(val, << <<index, slide>> >>)
     IN IF r.exc THEN raise
        ELSE /\ val' = r.val /\ slide' = slide + 1
             /\ UNCHANGED <<call, at, index, table, stdout>>
  /\ UNCHANGED fnvars

\* ranks += [val]
print_ranks_append ==
  /\ pc = "print_ranks" /\ at = "inner" /\ slide \notin range(1, 9)
  /\ table' = table \o <<val>> /\ index' = index + 1 /\ at' = "outer"
  /\ UNCHANGED <<call, slide, val, stdout>> /\ UNCHANGED fnvars

print_ranks_print ==
  /\ pc = "print_ranks" /\ at = "outer" /\ index \notin range(1, 9)
  /\ print("RANKS", 8, table)
  /\ UNCHANGED <<index, slide, val, table>> /\ UNCHANGED fnvars

print_ranks ==
  \/ print_ranks_begin
  \/ print_ranks_outer
  \/ print_ranks_inner
  \/ print_ranks_append
  \/ print_ranks_print

----------------------------------------------------------------------------
(* print_files, lines 11-18.  index is `file`, slide is `rank`. *)

print_files_begin ==
  /\ pc = "print_files" /\ at = "entry"
  /\ table' = <<>> /\ index' = 1 /\ at' = "outer"
  /\ UNCHANGED <<call, slide, val, stdout>> /\ UNCHANGED fnvars

\* for file in range(1, 9): val = 0
print_files_outer ==
  /\ pc = "print_files" /\ at = "outer" /\ index \in range(1, 9)
  /\ val' = {} /\ slide' = 1 /\ at' = "inner"
  /\ UNCHANGED <<call, index, table, stdout>> /\ UNCHANGED fnvars

\* for rank in range(1, 9): val |= bitboard_of(rank, file)
print_files_inner ==
  /\ pc = "print_files" /\ at = "inner" /\ slide \in range(1, 9)
  /\ LET r == ior(val, << <<slide, index>> >>)
     IN IF r.exc THEN raise
        ELSE /\ val' = r.val /\ slide' = slide + 1
             /\ UNCHANGED <<call, at, index, table, stdout>>
  /\ UNCHANGED fnvars

\* files += [val]
print_files_append ==
  /\ pc = "print_files" /\ at = "inner" /\ slide \notin range(1, 9)
  /\ table' = table \o <<val>> /\ index' = index + 1 /\ at' = "outer"
  /\ UNCHANGED <<call, slide, val, stdout>> /\ UNCHANGED fnvars

print_files_print ==
  /\ pc = "print_files" /\ at = "outer" /\ index \notin range(1, 9)
  /\ print("FILES", 8, table)
  /\ UNCHANGED <<index, slide, val, table>> /\ UNCHANGED fnvars

print_files ==
  \/ print_files_begin
  \/ print_files_outer
  \/ print_files_inner
  \/ print_files_append
  \/ print_files_print

----------------------------------------------------------------------------
(* The coordinates of a square index, lines 32-35 (and 46-49, 62-65). *)

\* y = int(index / 8); rank = 8 - y.  index / 8 is a float division, exact for
\* 0..63, and int() truncates it.
rank_of_low_first(i) == (i \div 8) + 1

rank_of(i) == 8 - (i \div 8)

\* x = index % 8; file = x + 1
file_of(i) == (i % 8) + 1

----------------------------------------------------------------------------
(* print_rook_rays, lines 29-41.  val is `ray`. *)

print_rook_rays_begin ==
  /\ pc = "print_rook_rays" /\ at = "entry"
  /\ table' = <<>> /\ index' = 0 /\ at' = "outer"
  /\ UNCHANGED <<call, slide, val, stdout>> /\ UNCHANGED fnvars

\* for index in range(64): ...; ray = 0
print_rook_rays_outer ==
  /\ pc = "print_rook_rays" /\ at = "outer" /\ index \in range(0, 64)
  /\ val' = {} /\ slide' = 1 /\ at' = "inner"
  /\ UNCHANGED <<call, index, table, stdout>> /\ UNCHANGED fnvars

rook_terms_diagonal(rank, file, s) == << <<rank, s>>, <<s, s>> >>

\* the calls of one pass of the slide loop, lines 38-39
rook_terms(rank, file, s) == << <<rank, s>>, <<s, file>> >>

print_rook_rays_inner ==
  /\ pc = "print_rook_rays" /\ at = "inner" /\ slide \in range(1, 9)
  /\ LET r == ior(val, rook_terms(rank_of(index), file_of(index), slide))
     IN IF r.exc THEN raise
        ELSE /\ val' = r.val /\ slide' = slide + 1
             /\ UNCHANGED <<call, at, index, table, stdout>>
  /\ UNCHANGED fnvars

\* rook_rays.append(ray)
print_rook_rays_append ==
  /\ pc = "print_rook_rays" /\ at = "inner" /\ slide \notin range(1, 9)
  /\ table' = Append(table, val) /\ index' = index + 1 /\ at' = "outer"
  /\ UNCHANGED <<call, slide, val, stdout>> /\ UNCHANGED fnvars

print_rook_rays_print ==
  /\ pc = "print_rook_rays" /\ at = "outer" /\ index \notin range(0, 64)
  /\ print("ROOK_RAYS", 64, table)
  /\ UNCHANGED <<index, slide, val, table>> /\ UNCHANGED fnvars

print_rook_rays ==
  \/ print_rook_rays_begin
  \/ print_rook_rays_outer
  \/ print_rook_rays_inner
  \/ print_rook_rays_append
  \/ print_rook_rays_print

----------------------------------------------------------------------------
(* print_bishop_rays, lines 43-57.  val is `ray`. *)

print_bishop_rays_begin ==
  /\ pc = "print_bishop_rays" /\ at = "entry"
  /\ table' = <<>> /\ index' = 0 /\ at' = "outer"
  /\ UNCHANGED <<call, slide, val, stdout>> /\ UNCHANGED fnvars

\* for index in range(64): ...; ray = 0
print_bishop_rays_outer ==
  /\ pc = "print_bishop_rays" /\ at = "outer" /\ index \in range(0, 64)
  /\ val' = {} /\ slide' = 1 /\ at' = "inner"
  /\ UNCHANGED <<call, index, table, stdout>> /\ UNCHANGED fnvars

bishop_terms_one_diagonal(rank, file, s) ==
  << <<rank + s, file + s>>, <<rank - s, file - s>>,
     <<rank - s, file - s>>, <<rank + s, file + s>> >>

bishop_terms_repeated_line(rank, file, s) ==
  << <<rank + s, file + s>>, <<rank - s, file - s>>,
     <<rank - s, file + s>>, <<rank - s, file + s>> >>

\* the calls of one pass of the slide loop, lines 52-55
bishop_terms(rank, file, s) ==
  << <<rank + s, file + s>>, <<rank - s, file - s>>,
     <<rank - s, file + s>>, <<rank + s, file - s>> >>

print_bishop_rays_inner ==
  /\ pc = "print_bishop_rays" /\ at = "inner" /\ slide \in range(1, 9)
  /\ LET r == ior(val, bishop_terms(rank_of(index), file_of(index), slide))
     IN IF r.exc THEN raise
        ELSE /\ val' = r.val /\ slide' = slide + 1
             /\ UNCHANGED <<call, at, index, table, stdout>>
  /\ UNCHANGED fnvars

\* bishop_rays.append(ray)
print_bishop_rays_append ==
  /\ pc = "print_bishop_rays" /\ at = "inner" /\ slide \notin range(1, 9)
  /\ table' = Append(table, val) /\ index' = index + 1 /\ at' = "outer"
  /\ UNCHANGED <<call, slide, val, stdout>> /\ UNCHANGED fnvars

print_bishop_rays_print ==
  /\ pc = "print_bishop_rays" /\ at = "outer" /\ index \notin range(0, 64)
  /\ print("BISHOP_RAYS", 64, table)
  /\ UNCHANGED <<index, slide, val, table>> /\ UNCHANGED fnvars

print_bishop_rays ==
  \/ print_bishop_rays_begin
  \/ print_bishop_rays_outer
  \/ print_bishop_rays_inner
  \/ print_bishop_rays_append
  \/ print_bishop_rays_print

----------------------------------------------------------------------------
(* print_knight_masks, lines 59-77.  val is `mask`. *)

print_knight_masks_begin ==
  /\ pc = "print_knight_masks" /\ at = "entry"
  /\ table' = <<>> /\ index' = 0 /\ at' = "outer"
  /\ UNCHANGED <<call, slide, val, stdout>> /\ UNCHANGED fnvars

knight_terms_short_jump(rank, file) ==
  << <<rank - 2, file - 1>>, <<rank - 2, file + 1>>,
     <<rank + 2, file - 1>>, <<rank + 2, file + 1>>,
     <<rank - 1, file - 2>>, <<rank - 1, file + 2>>,
     <<rank + 1, file - 2>>, <<rank + 1, file + 1>> >>

\* the calls of lines 67-75, in order
knight_terms(rank, file) ==
  << <<rank - 2, file - 1>>, <<rank - 2, file + 1>>,
     <<rank + 2, file - 1>>, <<rank + 2, file + 1>>,
     <<rank - 1, file - 2>>, <<rank - 1, file + 2>>,
     <<rank + 1, file - 2>>, <<rank + 1, file + 2>> >>

\* one pass of for index in range(64): mask = 0; mask |= ... (8 times);
\* knight_masks.append(mask)
print_knight_masks_body ==
  /\ pc = "print_knight_masks" /\ at = "outer" /\ index \in range(0, 64)
  /\ LET r == ior({}, knight_terms(rank_of(index), file_of(index)))
     IN IF r.exc THEN raise
        ELSE /\ val' = r.val /\ table' = Append(table, r.val) /\ index' = index + 1
             /\ UNCHANGED <<call, at, slide, stdout>>
  /\ UNCHANGED fnvars

print_knight_masks_print ==
  /\ pc = "print_knight_masks" /\ at = "outer" /\ index \notin range(0, 64)
  /\ print("KNIGHT_MASKS", 64, table)
  /\ UNCHANGED <<index, slide, val, table>> /\ UNCHANGED fnvars

print_knight_masks ==
  \/ print_knight_masks_begin
  \/ print_knight_masks_body
  \/ print_knight_masks_print

----------------------------------------------------------------------------
(* The program: main() run once, lines 79-87. *)

Init ==
  /\ call = 1 /\ at = "entry"
  /\ index = 0 /\ slide = 0 /\ val = {} /\ table = <<>>
  /\ stdout = <<>>
  /\ args = <<1, 1>> /\ ret = returns({}) /\ called = FALSE

Next ==
  \/ print_ranks
  \/ print_files
  \/ print_rook_rays
  \/ print_bishop_rays
  \/ print_knight_masks

Spec == Init /\ [][Next]_vars

\* The interpreter runs the single thread until main returns or raises.
FairSpec == Spec /\ WF_vars(Next)

----------------------------------------------------------------------------
(* bitboard_of applied to one pair of coordinates drawn from Coords. *)

InitFn ==
  /\ args \in Coords \X Coords
  /\ ret = returns({}) /\ called = FALSE
  /\ call = 1 /\ at = "entry"
  /\ index = 0 /\ slide = 0 /\ val = {} /\ table = <<>>
  /\ stdout = <<>>

apply_bitboard_of ==
  /\ ~called
  /\ ret' = bitboard_of(args[1], args[2])
  /\ called' = TRUE
  /\ UNCHANGED args /\ UNCHANGED progvars

NextFn == apply_bitboard_of

SpecFn == InitFn /\ [][NextFn]_vars

----------------------------------------------------------------------------
(* Vocabulary of the properties *)

\* the bit position of square (r, f)
Square(r, f) == (8 - r) * 8 + (f - 1)

Board == (1..8) \X (1..8)

OnBoard(r, f) == r \in 1..8 /\ f \in 1..8

Abs(n) == IF n < 0 THEN -n ELSE n

FullBoard == 0..63

\* the lists printed under a name
Tables(name) == {stdout[k].values : k \in {j \in 1..Len(stdout) : stdout[j].name = name}}

\* the same, with the list a running function has built so far
TablesSoFar(name, fn) ==
  Tables(name) \cup (IF pc = fn /\ at \in {"outer", "inner"} THEN {table} ELSE {})

\* coordinates of the square at position k (1-based) of a per-square table
RankAt(k) == 8 - ((k - 1) \div 8)
FileAt(k) == ((k - 1) % 8) + 1

RankLine(r) == {Square(r, f) : f \in 1..8}
FileLine(f) == {Square(r, f) : r \in 1..8}

Diagonals(r, f) ==
  {Square(q[1], q[2]) : q \in {p \in Board : Abs(p[1] - r) = Abs(p[2] - f) /\ Abs(p[1] - r) >= 1}}

KnightJumps(r, f) ==
  {Square(q[1], q[2]) : q \in {p \in Board : {Abs(p[1] - r), Abs(p[2] - f)} = {1, 2}}}

----------------------------------------------------------------------------
(* Properties of bitboard_of, checked under SpecFn *)

\* C1: for rank and file in 1..8, bitboard_of(rank, file) has exactly one bit
\* set, at position (8-rank)*8 + (file-1); the 64 pairs map to pairwise
\* distinct positions that together cover exactly 0..63.
C1_OneBitBijection ==
  (called /\ OnBoard(args[1], args[2])) =>
    /\ ~ret.exc
    /\ Cardinality(ret.val) = 1
    /\ ret.val = {Square(args[1], args[2])}
    /\ \A q \in Board : q # args => bitboard_of(q[1], q[2]).val # ret.val
    /\ UNION {bitboard_of(q[1], q[2]).val : q \in Board} = FullBoard

C1_Witness == called /\ args = <<1, 8>> /\ ret.val = {63}

\* C2: for rank outside 1..8 or file outside 1..8 (0, negative values and
\* values up to 16 included), bitboard_of returns 0 and raises no error.
C2_OutOfRangeZero ==
  (called /\ ~OnBoard(args[1], args[2])) => (~ret.exc /\ ret.val = {})

C2_Witness == called /\ args = <<8, 0>> /\ ~ret.exc /\ ret.val = {}

----------------------------------------------------------------------------
(* Properties of the tables, checked under Spec *)

MaskTableOk(t) ==
  /\ Len(t) = 8
  /\ \A i \in 1..8 : Cardinality(t[i]) = 8
  /\ \A i \in 1..8 : \A j \in 1..8 : i # j => t[i] \cap t[j] = {}
  /\ UNION {t[i] : i \in 1..8} = FullBoard

\* C3: the 8 file masks each have exactly 8 bits set, are pairwise disjoint
\* and their OR is the full board; the same holds for the 8 rank masks.
C3_FileRankMasks ==
  /\ \A t \in Tables("FILES") : MaskTableOk(t)
  /\ \A t \in Tables("RANKS") : MaskTableOk(t)

C3_Witness == Tables("FILES") # {} /\ Tables("RANKS") # {}

\* C4: the rook mask of every square index i is the union of all 8 squares of
\* its rank and all 8 squares of its file; it includes bit i and has exactly
\* 15 bits set.
C4_RookCross ==
  /\ \A t \in Tables("ROOK_RAYS") : Len(t) = 64
  /\ \A t \in TablesSoFar("ROOK_RAYS", "print_rook_rays") :
       \A k \in 1..Len(t) :
         /\ t[k] = RankLine(RankAt(k)) \cup FileLine(FileAt(k))
         /\ (k - 1) \in t[k]
         /\ Cardinality(t[k]) = 15

C4_Witness == \E t \in Tables("ROOK_RAYS") : Len(t) = 64 /\ 27 \in t[28]

\* C5: the knight mask of every square index i has a bit set for exactly the
\* on-board squares (rank+dr, file+df) with (|dr|, |df|) in {(2,1), (1,2)};
\* the mask of square index 0 has exactly 2 bits set.
C5_KnightMasks ==
  /\ \A t \in Tables("KNIGHT_MASKS") : Len(t) = 64 /\ Cardinality(t[1]) = 2
  /\ \A t \in TablesSoFar("KNIGHT_MASKS", "print_knight_masks") :
       \A k \in 1..Len(t) : t[k] = KnightJumps(RankAt(k), FileAt(k))

C5_Witness == \E t \in Tables("KNIGHT_MASKS") : Len(t) = 64 /\ Cardinality(t[28]) = 8

\* C6 as stated: the bishop mask of square index 0 (rank 8, file 1) is exactly
\* the 8 squares (rank 8-k, file 1+k), k = 0..7, the corner square included.
C6_CornerDiagonalWithCorner ==
  \A t \in Tables("BISHOP_RAYS") : t[1] = {Square(8 - k, 1 + k) : k \in 0..7}

\* C6 amended: the bishop mask of square index 0 (rank 8, file 1) is exactly
\* the 7 squares (rank 8-k, file 1+k), k = 1..7, of the diagonal through that
\* corner; the corner square itself (bit 0) is not set.
C6_CornerDiagonal ==
  \A t \in Tables("BISHOP_RAYS") :
    /\ t[1] = {Square(8 - k, 1 + k) : k \in 1..7}
    /\ 0 \notin t[1]

C6_Witness == \E t \in Tables("BISHOP_RAYS") : Cardinality(t[1]) = 7

AllThreeTables ==
  Tables("RANKS") # {} /\ Tables("FILES") # {} /\ Tables("ROOK_RAYS") # {}

\* C7 as stated: ROOK_RAYS[0] = RANKS[0] | FILES[0] (0-based).
C7_RookFromIndexZero ==
  \A r \in Tables("RANKS") : \A f \in Tables("FILES") : \A t \in Tables("ROOK_RAYS") :
    t[1] = r[1] \cup f[1]

\* C7 amended: ROOK_RAYS[0] = RANKS[7] | FILES[0] (0-based): the rank table is
\* ordered by increasing rank number, so the rank-8 line of square index 0 is
\* its last element.
C7_RookFromRankEight ==
  \A r \in Tables("RANKS") : \A f \in Tables("FILES") : \A t \in Tables("ROOK_RAYS") :
    t[1] = r[8] \cup f[1]

C7_Witness == AllThreeTables /\ \E r \in Tables("RANKS") : r[8] = RankLine(8)

\* C8: the bishop mask of every square index i is exactly the on-board squares
\* (r, f) with |r - rank| = |f - file| >= 1; during the slide loop the
\* accumulator holds exactly those at a distance already visited, so an
\* off-board term contributes no bit.
C8_BishopDiagonals ==
  /\ \A t \in Tables("BISHOP_RAYS") : Len(t) = 64
  /\ \A t \in TablesSoFar("BISHOP_RAYS", "print_bishop_rays") :
       \A k \in 1..Len(t) : t[k] = Diagonals(RankAt(k), FileAt(k))
  /\ (pc = "print_bishop_rays" /\ at = "inner") =>
       val = {Square(q[1], q[2]) :
                q \in {p \in Board : /\ Abs(p[1] - rank_of(index)) = Abs(p[2] - file_of(index))
                                     /\ Abs(p[1] - rank_of(index)) \in 1..(slide - 1)}}

C8_Witness ==
  \E t \in Tables("BISHOP_RAYS") : Len(t) = 64 /\ Cardinality(t[28]) = 13

----------------------------------------------------------------------------
(* Properties of the run *)

EmissionOrder == <<"RANKS", "FILES", "ROOK_RAYS", "BISHOP_RAYS", "KNIGHT_MASKS">>
EmissionLengths == <<8, 8, 64, 64, 64>>

PrefixOfEmission ==
  /\ Len(stdout) <= 5
  /\ \A k \in 1..Len(stdout) :
       /\ stdout[k].name = EmissionOrder[k]
       /\ stdout[k].len = EmissionLengths[k]
       /\ Len(stdout[k].values) = stdout[k].len

\* C9: a run of main terminates having written exactly the five declarations
\* RANKS, FILES, ROOK_RAYS, BISHOP_RAYS, KNIGHT_MASKS, each once and in that
\* order; at every point the lines written so far are a prefix of that
\* sequence, and the tables have 8, 8, 64, 64 and 64 elements, as declared.
C9_EmissionOrder ==
  /\ [](PrefixOfEmission /\ (pc = "done" => Len(stdout) = 5))
  /\ <>(pc = "done" /\ Len(stdout) = 5)

C9_Witness == pc = "done" /\ Len(stdout) = 5 /\ stdout[5].name = "KNIGHT_MASKS"

\* C10: every value of the five tables is an unsigned 64-bit integer: no bit
\* at position 64 or above is set, at any step of any accumulation loop, and
\* at least one emitted value has bit 63 set (exceeds 2^63 - 1).
C10_Unsigned64 ==
  /\ at # "raised"
  /\ val \subseteq FullBoard
  /\ \A k \in 1..Len(table) : table[k] \subseteq FullBoard
  /\ \A j \in 1..Len(stdout) :
       \A k \in 1..Len(stdout[j].values) : stdout[j].values[k] \subseteq FullBoard
  /\ pc = "done" =>
       \E j \in 1..Len(stdout) : \E k \in 1..Len(stdout[j].values) : 63 \in stdout[j].values[k]

C10_Witness ==
  pc = "done" /\ \E j \in 1..Len(stdout) : \E k \in 1..Len(stdout[j].values) :
                   63 \in stdout[j].values[k]

====
